---- MODULE Spec2Model ----
(***************************************************************************)
(* Model of flight_tracker.py: the foreground loop of main() (keyboard     *)
(* state machine, notification timer, synchronous poll of the data source, *)
(* redraw through get_renderable / generate_table), the enrichment workers *)
(* (fetch_route_thread) and the 's' sort-and-reload of airlines.txt.       *)
(*                                                                         *)
(* Time is counted in whole seconds.  Text typed at the keyboard is a      *)
(* sequence of one-character strings.                                      *)
(***************************************************************************)
EXTENDS Integers, Sequences, FiniteSets, TLC

\* ---------------------------------------------------------------- bounds
MaxBuf == 2
MaxStdin == 1
MaxClock == 6
MaxWorkers == 2
MaxFeed == 3

\* ------------------------------------------------------ program constants
DEFAULT_URL == <<"d">>
DefaultInterval == 5
DefaultRows == 15
NotificationTTL == 3
FetchTimeout == 5
IntervalMin == 1
IntervalMax == 60
RowsMin == 1
RowsMax == 25
Inf == 1000000

\* time.time() at startup: far larger than any poll interval,
\* so that the first "now - last_update >= current_interval" is true.
Epoch == 100

\* ------------------------------------------------------------------ keys
KeyEnter == "\n"
KeyBackspace == "DEL"
KeyEscape == "ESC"
Digits == {"0", "2", "6"}
Printable == {"0", "2", "6", "x", " ", "q", "h", "s", "i", "n", "u"}
ControlKeys == {KeyEnter, KeyBackspace, KeyEscape}

\* ------------------------------------------------- str.strip() and int()
RECURSIVE LStrip(_)
LStrip(s) == IF s # <<>> /\ Head(s) = " " THEN LStrip(Tail(s)) ELSE s

RECURSIVE RStrip(_)
RStrip(s) ==
    IF s # <<>> /\ s[Len(s)] = " " THEN RStrip(SubSeq(s, 1, Len(s) - 1)) ELSE s

Strip(s) == RStrip(LStrip(s))

DigitVal(c) == CASE c = "6" -> 6 [] c = "2" -> 2 [] OTHER -> 0

RECURSIVE DecimalValue(_)
DecimalValue(s) ==
    IF s = <<>> THEN 0
    ELSE 10 * DecimalValue(SubSeq(s, 1, Len(s) - 1)) + DigitVal(s[Len(s)])

\* int(input_buffer) raises ValueError unless the text, with surrounding
\* whitespace removed, is a non-empty run of digits.
IntRaises(s) ==
    \/ Strip(s) = <<>>
    \/ \E i \in 1..Len(Strip(s)) : Strip(s)[i] \notin Digits

IntOf(s) == DecimalValue(Strip(s))

\* A Backspace that removes nothing.
DropLast_Nothing(s) == s

\* input_buffer[:-1]
DropLast(s) == IF s = <<>> THEN <<>> ELSE SubSeq(s, 1, Len(s) - 1)

\* ------------------------------------------------------- enrichment data
\* Callsigns as the feed sends them (field "flight"), and f.get("flight",
\* "").strip() on them.
RawCallsigns == {"BAW1", "BAW1 ", "BAW2", "  "}

StripCallsign(raw) ==
    CASE raw = "BAW1 " -> "BAW1"
      [] raw = "  " -> ""
      [] OTHER -> raw

Callsigns == {"BAW1", "BAW2"}
Codes == {"BAW", "EZY", "ezy"}

\* callsign[:3].upper(), "" standing for a callsign shorter than 3
Prefix3Upper(callsign) ==
    CASE callsign = "BAW1" -> "BAW"
      [] callsign = "BAW2" -> "BAW"
      [] OTHER -> ""

\* code.upper() and the alphabetical order of the codes
UpperCode(code) == IF code = "ezy" THEN "EZY" ELSE code
CodeRank(code) == CASE code = "BAW" -> 1 [] code = "EZY" -> 2 [] OTHER -> 3

\* What api.adsbdb.com knows of a callsign: route "origin/dest", the
\* airline's ICAO code and its name.
ApiRoute(callsign) == IF callsign = "BAW1" THEN "LHR/JFK" ELSE "LHR/EDI"
ApiIcao(callsign) == "BAW"
ApiName(icao) == IF icao = "BAW" THEN "British Airways" ELSE "easyJet"

\* airlines.txt: whether the file exists and its data lines "code,name".
\* load_airlines() upper-cases the code of every line; a later line for
\* the same code overwrites an earlier one.
RECURSIVE LoadLines(_, _)
LoadLines(lines, d) ==
    IF lines = <<>> THEN d
    ELSE LoadLines(Tail(lines),
                   [x \in (DOMAIN d) \cup {UpperCode(Head(lines).code)} |->
                       IF x = UpperCode(Head(lines).code)
                       THEN Head(lines).name ELSE d[x]])

\* A dict as a function on its key set.
DictSet(d, k, v) == [x \in (DOMAIN d) \cup {k} |-> IF x = k THEN v ELSE d[x]]
EmptyDict == [x \in {} |-> ""]

\* A distance function that gives 0 to a record without coordinates.
calculate_distance_MissingFirst(f) == IF f.lat /\ f.lon THEN f.d ELSE 0

\* calculate_distance(f.get("lat"), f.get("lon"), DEFAULT_LAT, DEFAULT_LON):
\* the haversine value is carried by the record as f.d.
calculate_distance(f) == IF f.lat /\ f.lon THEN f.d ELSE Inf

\* list.sort(key=...) is stable: insert each element after the elements
\* whose key is less than or equal to its own.
RECURSIVE InsertByKey(_, _)
InsertByKey(sorted, x) ==
    IF sorted = <<>> THEN <<x>>
    ELSE IF sorted[Len(sorted)].k <= x.k THEN Append(sorted, x)
    ELSE Append(InsertByKey(SubSeq(sorted, 1, Len(sorted) - 1), x),
                sorted[Len(sorted)])

RECURSIVE StableSort(_)
StableSort(s) ==
    IF s = <<>> THEN <<>>
    ELSE InsertByKey(StableSort(SubSeq(s, 1, Len(s) - 1)), s[Len(s)])

\* A slice that keeps every record.
Take_Everything(s, n) == s

\* flights_with_dist[:max_rows]
Take(s, n) == SubSeq(s, 1, IF n < Len(s) THEN n ELSE Len(s))

nearest_flights(list, max_rows) ==
    Take(StableSort([i \in 1..Len(list) |->
                        [k |-> calculate_distance(list[i]), v |-> list[i]]]),
         max_rows)

get_airline(airlines, callsign) ==
    IF Prefix3Upper(callsign) = "" THEN ""
    ELSE IF Prefix3Upper(callsign) \in DOMAIN airlines
         THEN airlines[Prefix3Upper(callsign)]
         ELSE ""

DisplayCallsign(f) ==
    IF StripCallsign(f.flight) = "" THEN "-" ELSE StripCallsign(f.flight)

MissingData(airlines, routes, callsign) ==
    callsign \notin DOMAIN routes \/ get_airline(airlines, callsign) = ""

\* The trigger without its test of PENDING_LOOKUPS.
ShouldTrigger_NoPendingTest(missing, callsign, pending) ==
    missing /\ callsign # "-"

\* "if missing_data and callsign != '-' and callsign not in PENDING_LOOKUPS"
ShouldTrigger(missing, callsign, pending) ==
    missing /\ callsign # "-" /\ callsign \notin pending

\* The loop over nearest_flights: the rows added to the table, the pending
\* set after the loop and the callsigns a thread was started for, in order.
RECURSIVE RenderRows(_, _, _, _)
RenderRows(near, airlines, routes, acc) ==
    IF near = <<>> THEN acc
    ELSE LET f == Head(near).v
             callsign == DisplayCallsign(f)
             trigger == ShouldTrigger(MissingData(airlines, routes, callsign),
                                      callsign, acc.pending)
             row == [callsign |-> callsign,
                     airline |-> get_airline(airlines, callsign),
                     route |-> IF callsign \in DOMAIN routes
                               THEN routes[callsign] ELSE "?",
                     dist |-> Head(near).k]
         IN RenderRows(Tail(near), airlines, routes,
                [rows |-> Append(acc.rows, row),
                 pending |-> IF trigger THEN acc.pending \cup {callsign}
                             ELSE acc.pending,
                 started |-> IF trigger THEN Append(acc.started, callsign)
                             ELSE acc.started])

\* generate_table(flights, source_url, max_rows): the table and the effect
\* on PENDING_LOOKUPS and on the threads started.
generate_table(fl, source_url, max_rows, airlines, routes, pending) ==
    IF fl.none
    THEN [table |-> [kind |-> "error", url |-> source_url, rows |-> <<>>],
          pending |-> pending, started |-> <<>>]
    ELSE IF fl.list = <<>>
    THEN [table |-> [kind |-> "empty", url |-> <<>>, rows |-> <<>>],
          pending |-> pending, started |-> <<>>]
    ELSE LET r == RenderRows(nearest_flights(fl.list, max_rows), airlines,
                             routes,
                             [rows |-> <<>>, pending |-> pending,
                              started |-> <<>>])
         IN [table |-> [kind |-> "rows", url |-> <<>>, rows |-> r.rows],
             pending |-> r.pending, started |-> r.started]

\* ------------------------------------------------------------- settings
\* save_config(): the values config.txt holds after the write.
save_config(cfg) ==
    [url |-> cfg.url, interval |-> cfg.interval, rows |-> cfg.rows]

Msg(kind, num, url) == [kind |-> kind, num |-> num, url |-> url]
NoMsg == Msg("None", 0, <<>>)

\* The interval test without its lower limit.
ValidInterval_NoLowerLimit(val) == val <= IntervalMax

\* "if 1 <= val <= 60", "if 1 <= val <= 25", "if input_buffer.strip()"
ValidInterval(val) == IntervalMin <= val /\ val <= IntervalMax
ValidRows(val) == RowsMin <= val /\ val <= RowsMax
ValidUrl(buf) == Strip(buf) # <<>>

\* The Enter branch of the input-mode handler: the settings, the
\* notification and whether save_config() was called.
CommitInterval(buf, c) ==
    IF IntRaises(buf)
    THEN [c EXCEPT !.notified = TRUE, !.msg = Msg("invalid_input", 0, <<>>)]
    ELSE IF ValidInterval(IntOf(buf))
    THEN [c EXCEPT !.interval = IntOf(buf),
                   !.cfg = [c.cfg EXCEPT !.interval = IntOf(buf)],
                   !.saved = TRUE, !.notified = TRUE,
                   !.msg = Msg("interval_updated", IntOf(buf), <<>>)]
    ELSE [c EXCEPT !.notified = TRUE,
                   !.msg = Msg("invalid_interval", 0, <<>>)]

CommitUrl(buf, c) ==
    IF ValidUrl(buf)
    THEN [c EXCEPT !.url = Strip(buf),
                   !.cfg = [c.cfg EXCEPT !.url = Strip(buf)],
                   !.saved = TRUE, !.notified = TRUE,
                   !.msg = Msg("url_updated", 0, Strip(buf))]
    ELSE c

CommitRows(buf, c) ==
    IF IntRaises(buf)
    THEN [c EXCEPT !.notified = TRUE, !.msg = Msg("invalid_input", 0, <<>>)]
    ELSE IF ValidRows(IntOf(buf))
    THEN [c EXCEPT !.rows = IntOf(buf),
                   !.cfg = [c.cfg EXCEPT !.rows = IntOf(buf)],
                   !.saved = TRUE, !.notified = TRUE,
                   !.msg = Msg("rows_updated", IntOf(buf), <<>>)]
    ELSE [c EXCEPT !.notified = TRUE,
                   !.msg = Msg("invalid_rows", 0, <<>>)]

Commit(mode, buf, c) ==
    CASE mode = "interval" -> CommitInterval(buf, c)
      [] mode = "url" -> CommitUrl(buf, c)
      [] mode = "rows" -> CommitRows(buf, c)
      [] OTHER -> c

\* ------------------------------------------------------------------ state
VARIABLES
    pc,                      \* position of the main thread
    term,                    \* terminal input mode
    old_settings,            \* KeyListener.old_settings
    exitcause,               \* how the foreground loop ended
    stdin,                   \* keystrokes waiting to be read
    char,                    \* the last character read_char() returned
    input_mode, input_buffer,
    current_url, current_interval, current_max_rows,
    CONFIG,                  \* the keys url, interval, rows of CONFIG
    cfgfile,                 \* the same keys as config.txt holds them
    show_help,
    notification_msg, notification_start_time,
    clock,                   \* time.time(), in seconds
    now, last_update,
    flights,                 \* [none |-> flights is None, list |-> ...]
    frame,                   \* the renderable last given to Live
    AIRLINES, ROUTES, PENDING_LOOKUPS,
    workers,                 \* the running fetch_route_thread threads
    nstarted,                \* threads started so far
    airlines_file, routes_file,
    sort_data,               \* sort_airlines(): the lines read
    notif_created,           \* history: clock at the last assignment of a text to notification_msg
    committed                \* history: airline codes a worker's writes have put in AIRLINES and in airlines.txt

inputVars == <<input_mode, input_buffer>>
settingVars ==
    <<current_url, current_interval, current_max_rows, CONFIG, cfgfile>>
notifVars == <<notification_msg, notification_start_time, notif_created>>
renderVars == <<frame, PENDING_LOOKUPS, workers, nstarted>>
storeVars == <<AIRLINES, ROUTES, airlines_file, routes_file, committed>>
termVars == <<term, old_settings, exitcause>>

vars == <<pc, term, old_settings, exitcause, stdin, char, input_mode,
          input_buffer, current_url, current_interval, current_max_rows,
          CONFIG, cfgfile, show_help, notification_msg,
          notification_start_time, clock, now, last_update, flights, frame,
          AIRLINES, ROUTES, PENDING_LOOKUPS, workers, nstarted,
          airlines_file, routes_file, sort_data, notif_created, committed>>

LoopPcs == {"read", "timer", "fetching", "sleep",
            "sort_read", "sort_write", "sort_reset", "sort_load"}

Frame(table, help, cfg, notif, mode, buf) ==
    [table |-> table, help |-> help,
     help_interval |-> IF help THEN cfg.interval ELSE 0,
     help_rows |-> IF help THEN cfg.rows ELSE 0,
     notif |-> notif, mode |-> mode, buf |-> buf]

NewWorker(callsign) ==
    [cs |-> callsign, pc |-> "get", airline |-> FALSE, failed |-> FALSE]

\* live.update(get_renderable(flights, current_url, show_help,
\* notification_msg, input_mode, input_buffer, current_max_rows)), with the
\* values the handler has just assigned.
Redraw(fl, url, help, cfg, notif, mode, buf, max_rows, airlines) ==
    LET g == generate_table(fl, url, max_rows, airlines, ROUTES,
                            PENDING_LOOKUPS)
    IN /\ nstarted + Len(g.started) <= MaxWorkers
       /\ frame' = Frame(g.table, help, cfg, notif, mode, buf)
       /\ PENDING_LOOKUPS' = g.pending
       /\ workers' = workers \o [i \in 1..Len(g.started) |->
                                    NewWorker(g.started[i])]
       /\ nstarted' = nstarted + Len(g.started)

NoRedraw == UNCHANGED renderVars

\* The terminal mode the process finds at startup.
StartupMode == "canonical"

\* CONFIG before load_config().
DefaultConfig ==
    [url |-> DEFAULT_URL, interval |-> DefaultInterval, rows |-> DefaultRows]

\* config.txt before the program starts: absent, or the lines url=,
\* interval= and rows= with integer values.  load_config() assigns
\* CONFIG[key] = int(value) with no test of the range; when the file is
\* absent it calls save_config(), which writes the defaults.
load_config(file) ==
    IF file.exists
    THEN [url |-> file.url, interval |-> file.interval, rows |-> file.rows]
    ELSE DefaultConfig

ConfigFileAfterLoad(file) ==
    IF file.exists
    THEN [url |-> file.url, interval |-> file.interval, rows |-> file.rows]
    ELSE save_config(DefaultConfig)

\* parser.parse_args(): --url and --interval (type=int), each absent (None)
\* or given.
NoArgs == [url |-> [given |-> FALSE, val |-> <<>>],
           interval |-> [given |-> FALSE, val |-> 0]]

\* "args.url if args.url else CONFIG['url']" and
\* "args.interval if args.interval else CONFIG['interval']"
EffectiveUrl(args, cfg) ==
    IF args.url.given /\ args.url.val # <<>> THEN args.url.val ELSE cfg.url

EffectiveInterval(args, cfg) ==
    IF args.interval.given /\ args.interval.val # 0
    THEN args.interval.val ELSE cfg.interval

\* A start that puts the values of the arguments into CONFIG.
ConfigAfterArgs_Overridden(args, cfg) ==
    [cfg EXCEPT !.url = EffectiveUrl(args, cfg),
                !.interval = EffectiveInterval(args, cfg)]

\* CONFIG after the arguments are applied: lines 485-487 assign the
\* current_* variables only.
ConfigAfterArgs(args, cfg) == cfg

\* The state main() has built when it reaches "with KeyListener()":
\* load_config(), load_airlines(), load_routes() and the arguments.
InitMain(cfg, file, args, airfile) ==
    /\ pc = "start"
    /\ term = StartupMode
    /\ old_settings = "unset"
    /\ exitcause = "none"
    /\ stdin = 0
    /\ char = ""
    /\ input_mode = "None"
    /\ input_buffer = <<>>
    /\ CONFIG = ConfigAfterArgs(args, cfg)
    /\ cfgfile = file
    /\ current_url = EffectiveUrl(args, cfg)
    /\ current_interval = EffectiveInterval(args, cfg)
    /\ current_max_rows = cfg.rows
    /\ show_help = TRUE
    /\ notification_msg = NoMsg
    /\ notification_start_time = 0
    /\ clock = Epoch
    /\ now = 0
    /\ last_update = 0
    /\ flights = [none |-> FALSE, list |-> <<>>]
    /\ frame = Frame([kind |-> "empty", url |-> <<>>, rows |-> <<>>],
                     FALSE, CONFIG, NoMsg, "None", <<>>)
    /\ airlines_file = airfile
    /\ AIRLINES = IF airfile.exists THEN LoadLines(airfile.lines, EmptyDict)
                  ELSE EmptyDict
    /\ ROUTES = EmptyDict
    /\ PENDING_LOOKUPS = {}
    /\ workers = <<>>
    /\ nstarted = 0
    /\ routes_file = <<>>
    /\ sort_data = <<>>
    /\ notif_created = 0
    /\ committed = {}

\* A start with no arguments and a config.txt that holds cfg.
InitWith(cfg, airfile) == InitMain(cfg, save_config(cfg), NoArgs, airfile)

\* ------------------------------------------------------- the main thread
\* A stop() that leaves the terminal as it is.
stop_NoRestore(saved, current) == current

\* KeyListener.stop(): termios.tcsetattr(sys.stdin, TCSADRAIN, old_settings)
stop(saved, current) == saved

\* The loop is left (break, or an exception that leaves main()): the two
\* "with" blocks are unwound, KeyListener.__exit__ calls stop(), and the
\* process ends.  What the process held in memory is gone; the terminal
\* and the files remain.
ExitLoop(cause) ==
    /\ pc' = "done"
    /\ exitcause' = cause
    /\ term' = stop(old_settings, term)
    /\ old_settings' = old_settings
    /\ input_mode' = "None"
    /\ input_buffer' = <<>>
    /\ current_url' = <<>>
    /\ current_interval' = 0
    /\ current_max_rows' = 0
    /\ CONFIG' = [url |-> <<>>, interval |-> 0, rows |-> 0]
    /\ show_help' = FALSE
    /\ notification_msg' = NoMsg
    /\ notification_start_time' = 0
    /\ notif_created' = 0
    /\ now' = 0
    /\ last_update' = 0
    /\ flights' = [none |-> FALSE, list |-> <<>>]
    /\ frame' = Frame([kind |-> "empty", url |-> <<>>, rows |-> <<>>],
                      FALSE, CONFIG', NoMsg, "None", <<>>)
    /\ AIRLINES' = EmptyDict
    /\ ROUTES' = EmptyDict
    /\ PENDING_LOOKUPS' = {}
    /\ workers' = <<>>
    /\ sort_data' = <<>>
    /\ stdin' = 0
    /\ char' = ""
    /\ UNCHANGED <<cfgfile, nstarted, airlines_file, routes_file,
                   committed>>

\* KeyListener.__enter__: save the terminal settings, tty.setcbreak().
KeyListenerEnter ==
    /\ pc = "start"
    /\ old_settings' = term
    /\ term' = "cbreak"
    /\ pc' = "entered"
    /\ UNCHANGED <<exitcause, stdin, char, inputVars, settingVars, show_help,
                   notifVars, clock, now, last_update, flights, renderVars,
                   storeVars, sort_data>>

\* flights = []; Live(get_renderable(...)); last_update = 0
LiveStart ==
    /\ pc = "entered"
    /\ flights' = [none |-> FALSE, list |-> <<>>]
    /\ last_update' = 0
    /\ Redraw(flights', current_url, show_help, CONFIG, notification_msg,
              input_mode, input_buffer, current_max_rows, AIRLINES)
    /\ pc' = "read"
    /\ UNCHANGED <<termVars, stdin, char, inputVars, settingVars, show_help,
                   notifVars, clock, now, storeVars, sort_data>>

\* A keystroke reaches the terminal; it waits in stdin until read_char().
KeyArrive ==
    /\ pc \in LoopPcs \cup {"entered"}
    /\ stdin < MaxStdin
    /\ stdin' = stdin + 1
    /\ UNCHANGED <<pc, termVars, char, inputVars, settingVars, show_help,
                   notifVars, clock, now, last_update, flights, renderVars,
                   storeVars, sort_data>>

\* read_char() returns None: nothing to handle.
ReadNone ==
    /\ pc = "read"
    /\ stdin = 0
    /\ pc' = "timer"
    /\ UNCHANGED <<termVars, stdin, char, inputVars, settingVars, show_help,
                   notifVars, clock, now, last_update, flights, renderVars,
                   storeVars, sort_data>>

\* char = listener.read_char() returned a character: the input-mode branch
\* (Enter, Backspace, Escape, printable) or the command branch (q, h, s, i,
\* n, u), with the live.update() that ends the branch.
\* A quit command that does not look at the input mode.
QuitCommand_AnyMode(mode, k) == k = "q"

\* "if input_mode: ... else: if char.lower() == 'q': break"
QuitCommand(mode, k) == mode = "None" /\ k = "q"

ReadKey(k) ==
    /\ pc = "read"
    /\ stdin > 0
    /\ IF QuitCommand(input_mode, k)
       THEN ExitLoop("quit") /\ clock' = clock
       ELSE
       LET editing == input_mode # "None"
           enter == editing /\ k = KeyEnter
           c0 == [cfg |-> CONFIG, interval |-> current_interval,
                  rows |-> current_max_rows, url |-> current_url,
                  msg |-> notification_msg, saved |-> FALSE,
                  notified |-> FALSE]
           c == IF enter THEN Commit(input_mode, input_buffer, c0) ELSE c0
           mode1 == IF editing
                    THEN IF k \in {KeyEnter, KeyEscape} THEN "None"
                         ELSE input_mode
                    ELSE CASE k = "i" -> "interval"
                           [] k = "n" -> "rows"
                           [] k = "u" -> "url"
                           [] OTHER -> input_mode
           buf1 == IF editing
                   THEN CASE k \in {KeyEnter, KeyEscape} -> <<>>
                          [] k = KeyBackspace -> DropLast(input_buffer)
                          [] k \in Printable -> Append(input_buffer, k)
                          [] OTHER -> input_buffer
                   ELSE IF k \in {"i", "n", "u"} THEN <<>> ELSE input_buffer
           help1 == IF ~editing /\ k = "h" THEN ~show_help ELSE show_help
           sort == ~editing /\ k = "s"
           render == editing \/ k \in {"h", "i", "n", "u"}
       IN /\ (editing /\ k \in Printable) => Len(input_buffer) < MaxBuf
          /\ stdin' = stdin - 1
          /\ char' = k
          /\ input_mode' = mode1
          /\ input_buffer' = buf1
          /\ show_help' = help1
          /\ CONFIG' = c.cfg
          /\ cfgfile' = IF c.saved THEN save_config(c.cfg) ELSE cfgfile
          /\ current_interval' = c.interval
          /\ current_max_rows' = c.rows
          /\ current_url' = c.url
          /\ notification_msg' = c.msg
          /\ notification_start_time' =
                IF enter THEN clock ELSE notification_start_time
          /\ notif_created' = IF c.notified THEN clock ELSE notif_created
          /\ pc' = IF sort THEN "sort_read" ELSE "timer"
          /\ IF render
             THEN Redraw(flights, c.url, help1, c.cfg, c.msg, mode1, buf1,
                         c.rows, AIRLINES)
             ELSE NoRedraw
          /\ UNCHANGED <<termVars, clock, now, last_update, flights,
                         storeVars, sort_data>>

\* sort_airlines(), called for the 's' command.  parts[0].strip().upper()
\* and the sort by code of the data lines:
SortedData(lines) ==
    LET keyed == StableSort([i \in 1..Len(lines) |->
                    [k |-> CodeRank(UpperCode(lines[i].code)),
                     v |-> [code |-> UpperCode(lines[i].code),
                            name |-> lines[i].name]]])
    IN [i \in 1..Len(keyed) |-> keyed[i].v]

\* notification_msg = msg; notification_start_time = time.time();
\* live.update(...): the end of the 's' branch.
SortReport(kind, airlines) ==
    /\ notification_msg' = Msg(kind, 0, <<>>)
    /\ notification_start_time' = clock
    /\ notif_created' = clock
    /\ Redraw(flights, current_url, show_help, CONFIG, Msg(kind, 0, <<>>),
              input_mode, input_buffer, current_max_rows, airlines)
    /\ sort_data' = <<>>
    /\ pc' = "timer"

\* os.path.exists(file_path); lines = f.readlines()
SortRead ==
    /\ pc = "sort_read"
    /\ IF airlines_file.exists
       THEN /\ sort_data' = airlines_file.lines
            /\ pc' = "sort_write"
            /\ UNCHANGED <<notifVars, renderVars>>
       ELSE SortReport("sort_not_found", AIRLINES)
    /\ UNCHANGED <<termVars, stdin, char, inputVars, settingVars, show_help,
                   clock, now, last_update, flights, storeVars>>

\* open(file_path, "w") and the write of the sorted lines
SortWrite ==
    /\ pc = "sort_write"
    /\ airlines_file' = [exists |-> TRUE, lines |-> SortedData(sort_data)]
    /\ pc' = "sort_reset"
    /\ UNCHANGED <<termVars, stdin, char, inputVars, settingVars, show_help,
                   notifVars, clock, now, last_update, flights, renderVars,
                   AIRLINES, ROUTES, routes_file, committed, sort_data>>

\* load_airlines(): AIRLINES = {}
SortReset ==
    /\ pc = "sort_reset"
    /\ AIRLINES' = EmptyDict
    /\ pc' = "sort_load"
    /\ UNCHANGED <<termVars, stdin, char, inputVars, settingVars, show_help,
                   notifVars, clock, now, last_update, flights, renderVars,
                   ROUTES, airlines_file, routes_file, committed, sort_data>>

\* load_airlines(): the lines of the file into AIRLINES; then the report.
SortLoad ==
    /\ pc = "sort_load"
    /\ AIRLINES' = IF airlines_file.exists
                   THEN LoadLines(airlines_file.lines, AIRLINES)
                   ELSE AIRLINES
    /\ SortReport("sorted", AIRLINES')
    /\ UNCHANGED <<termVars, stdin, char, inputVars, settingVars, show_help,
                   clock, now, last_update, flights, ROUTES, airlines_file,
                   routes_file, committed>>

\* "Handle Updates": now = time.time(); the notification is cleared after
\* 3 seconds; the poll is due when now - last_update >= current_interval,
\* and then fetch_flight_data(current_url) is entered.
NotificationExpired(t, msg, start) ==
    msg # NoMsg /\ t - start > NotificationTTL

\* A poll decision that uses the interval of the defaults.
PollDue_DefaultInterval(t, last, interval) == t - last >= DefaultInterval

PollDue(t, last, interval) == t - last >= interval

HandleUpdates ==
    /\ pc = "timer"
    /\ now' = clock
    /\ IF NotificationExpired(clock, notification_msg,
                              notification_start_time)
       THEN /\ notification_msg' = NoMsg
            /\ Redraw(flights, current_url, show_help, CONFIG, NoMsg,
                      input_mode, input_buffer, current_max_rows, AIRLINES)
       ELSE /\ notification_msg' = notification_msg
            /\ NoRedraw
    /\ pc' = IF PollDue(clock, last_update, current_interval)
             THEN "fetching" ELSE "sleep"
    /\ UNCHANGED <<termVars, stdin, char, inputVars, settingVars, show_help,
                   notification_start_time, notif_created, clock,
                   last_update, flights, storeVars, sort_data>>

\* fetch_flight_data(current_url) returns after dur seconds:
\*   "ok"         the list data.get("aircraft", [])
\*   "unavailable" a requests.RequestException (connection, timeout, HTTP
\*                status, and the JSONDecodeError of requests >= 2.27):
\*                None is returned
\*   "malformed"  the body is not the JSON object expected and what is
\*                raised is no RequestException (AttributeError from
\*                data.get on a body such as [], ValueError from
\*                response.json() before requests 2.27): the exception
\*                leaves main()
\* then live.update(...) and last_update = now.
FetchReturn(kind, list, dur) ==
    /\ pc = "fetching"
    /\ clock + dur <= Epoch + MaxClock
    /\ clock' = clock + dur
    /\ IF kind = "malformed"
       THEN ExitLoop("exception")
       ELSE /\ flights' = IF kind = "ok" THEN [none |-> FALSE, list |-> list]
                          ELSE [none |-> TRUE, list |-> <<>>]
            /\ Redraw(flights', current_url, show_help, CONFIG,
                      notification_msg, input_mode, input_buffer,
                      current_max_rows, AIRLINES)
            /\ last_update' = now
            /\ pc' = "sleep"
            /\ UNCHANGED <<termVars, stdin, char, inputVars, settingVars,
                           show_help, notifVars, now, storeVars, sort_data>>

\* time.sleep(0.1)
Sleep(d) ==
    /\ pc = "sleep"
    /\ clock + d <= Epoch + MaxClock
    /\ clock' = clock + d
    /\ pc' = "read"
    /\ UNCHANGED <<termVars, stdin, char, inputVars, settingVars, show_help,
                   notifVars, now, last_update, flights, renderVars,
                   storeVars, sort_data>>

\* Ctrl-C: KeyboardInterrupt is raised in the main thread, inside the
\* "with KeyListener()" block.
Interrupt ==
    /\ pc \in LoopPcs \cup {"entered"}
    /\ ExitLoop("interrupt")
    /\ clock' = clock

\* ------------------------------------------------- fetch_route_thread(cs)
RemoveAt(seq, i) == SubSeq(seq, 1, i - 1) \o SubSeq(seq, i + 1, Len(seq))

WorkerAt(w, at) ==
    /\ pc # "done"
    /\ w \in 1..Len(workers)
    /\ workers[w].pc = at

\* requests.get(url, timeout=10) returns or raises.  With status 200 and a
\* body that parses, the route is written when origin and dest are there:
\* ROUTES[callsign] = route_str and the line appended to routes.txt.  Any
\* other status, and any exception, lead to the finally clause.
\* A worker that writes a route whatever the response was.
RoutesAfterResponse_Always(routes, callsign, kind, hasRoute) ==
    DictSet(routes, callsign, ApiRoute(callsign))

\* ROUTES after the response: "if origin and dest: ROUTES[callsign] = ..."
\* is reached only with status 200 and a body that parses.
RoutesAfterResponse(routes, callsign, kind, hasRoute) ==
    IF kind = "ok" /\ hasRoute
    THEN DictSet(routes, callsign, ApiRoute(callsign))
    ELSE routes

WorkerResponse(w, kind, hasRoute, hasAirline) ==
    /\ WorkerAt(w, "get")
    /\ ROUTES' = RoutesAfterResponse(ROUTES, workers[w].cs, kind, hasRoute)
    /\ IF kind = "ok"
       THEN /\ workers' = [workers EXCEPT ![w].pc = "airline",
                                          ![w].airline = hasAirline]
            /\ routes_file' =
                  IF hasRoute
                  THEN Append(routes_file,
                              [cs |-> workers[w].cs,
                               route |-> ApiRoute(workers[w].cs)])
                  ELSE routes_file
       ELSE /\ workers' = [workers EXCEPT ![w].pc = "finally",
                                          ![w].failed = TRUE]
            /\ routes_file' = routes_file
    /\ UNCHANGED <<pc, termVars, stdin, char, inputVars, settingVars,
                   show_help, notifVars, clock, now, last_update, flights,
                   frame, PENDING_LOOKUPS, nstarted, AIRLINES,
                   airlines_file, committed, sort_data>>

\* "if icao and name: if icao not in AIRLINES"
AirlineIsNew(found, icao, airlines) == found /\ icao \notin DOMAIN airlines

WorkerAirlineCheck(w) ==
    /\ WorkerAt(w, "airline")
    /\ workers' = [workers EXCEPT ![w].pc =
          IF AirlineIsNew(workers[w].airline, ApiIcao(workers[w].cs), AIRLINES)
          THEN "airline_set" ELSE "finally"]
    /\ UNCHANGED <<pc, termVars, stdin, char, inputVars, settingVars,
                   show_help, notifVars, clock, now, last_update, flights,
                   frame, PENDING_LOOKUPS, nstarted, storeVars, sort_data>>

\* AIRLINES[icao] = name
WorkerAirlineSet(w) ==
    /\ WorkerAt(w, "airline_set")
    /\ AIRLINES' = DictSet(AIRLINES, ApiIcao(workers[w].cs),
                           ApiName(ApiIcao(workers[w].cs)))
    /\ workers' = [workers EXCEPT ![w].pc = "airline_file"]
    /\ UNCHANGED <<pc, termVars, stdin, char, inputVars, settingVars,
                   show_help, notifVars, clock, now, last_update, flights,
                   frame, PENDING_LOOKUPS, nstarted, ROUTES, airlines_file,
                   routes_file, committed, sort_data>>

\* open(airlines.txt, "a"); f.write(f"\n{icao},{name}")
WorkerAirlineAppend(w) ==
    /\ WorkerAt(w, "airline_file")
    /\ airlines_file' =
          [exists |-> TRUE,
           lines |-> Append(airlines_file.lines,
                            [code |-> ApiIcao(workers[w].cs),
                             name |-> ApiName(ApiIcao(workers[w].cs))])]
    /\ committed' = IF ApiIcao(workers[w].cs) \in DOMAIN AIRLINES
                     THEN committed \cup {ApiIcao(workers[w].cs)}
                     ELSE committed
    /\ workers' = [workers EXCEPT ![w].pc = "finally"]
    /\ UNCHANGED <<pc, termVars, stdin, char, inputVars, settingVars,
                   show_help, notifVars, clock, now, last_update, flights,
                   frame, PENDING_LOOKUPS, nstarted, AIRLINES, ROUTES,
                   routes_file, sort_data>>

\* A finally clause that leaves PENDING_LOOKUPS as it is.
PendingAfterWorker_Kept(pending, callsign) == pending

\* finally: if callsign in PENDING_LOOKUPS: PENDING_LOOKUPS.remove(callsign)
\* and the thread ends.
PendingAfterWorker(pending, callsign) == pending \ {callsign}

WorkerFinally(w) ==
    /\ WorkerAt(w, "finally")
    /\ PENDING_LOOKUPS' = PendingAfterWorker(PENDING_LOOKUPS, workers[w].cs)
    /\ workers' = RemoveAt(workers, w)
    /\ UNCHANGED <<pc, termVars, stdin, char, inputVars, settingVars,
                   show_help, notifVars, clock, now, last_update, flights,
                   frame, nstarted, storeVars, sort_data>>

\* ------------------------------------------------------ specifications
AirlineFile == [exists |-> TRUE,
                lines |-> <<[code |-> "ezy", name |-> "easyJet"]>>]

Init == InitWith(DefaultConfig, AirlineFile)

Startup == KeyListenerEnter \/ LiveStart

\* The interval and rows editors: the keys i and n, digits, a blank, Enter,
\* Backspace and Escape; a data source with no aircraft; no passage of
\* time.
EditKeys == {"i", "n", "0", "6", " ", KeyEnter, KeyBackspace, KeyEscape}

NextEdit ==
    \/ Startup
    \/ KeyArrive
    \/ ReadNone
    \/ \E k \in EditKeys : ReadKey(k)
    \/ HandleUpdates
    \/ \E kind \in {"ok", "unavailable"} : FetchReturn(kind, <<>>, 0)
    \/ Sleep(0)

SpecEdit == Init /\ [][NextEdit]_vars

\* Timers, polls and the ways the loop ends: a data source that answers
\* at once, after 2 seconds or at the 5 seconds of the request's timeout.
TimeKeys == {"u", KeyEnter, "q"}
FetchSeconds == {0, 2, FetchTimeout}

NextTime ==
    \/ Startup
    \/ KeyArrive
    \/ ReadNone
    \/ \E k \in TimeKeys : ReadKey(k)
    \/ HandleUpdates
    \/ \E kind \in {"ok", "unavailable", "malformed"}, dur \in FetchSeconds :
          FetchReturn(kind, <<>>, dur)
    \/ \E d \in {0, 1} : Sleep(d)
    \/ Interrupt

SpecTime == Init /\ [][NextTime]_vars

\* Enrichment: a feed with aircraft, frames redrawn by the poll and by the
\* s command, and the workers.
Aircraft(flight, lat, lon, d) ==
    [flight |-> flight, lat |-> lat, lon |-> lon, d |-> d]

EnrichFeeds ==
    {<<Aircraft("BAW1", TRUE, TRUE, 10)>>,
     <<Aircraft("BAW1", TRUE, TRUE, 10), Aircraft("BAW1 ", TRUE, TRUE, 20)>>,
     <<Aircraft("BAW2", TRUE, FALSE, 5), Aircraft("BAW1", TRUE, TRUE, 10)>>}

EnrichKeys == {"s", "q"}

Workers ==
    \E w \in 1..MaxWorkers :
        \/ \E kind \in {"ok", "non200", "exception"},
              hasRoute \in BOOLEAN, hasAirline \in BOOLEAN :
                 WorkerResponse(w, kind, hasRoute, hasAirline)
        \/ WorkerAirlineCheck(w)
        \/ WorkerAirlineSet(w)
        \/ WorkerAirlineAppend(w)
        \/ WorkerFinally(w)

NextEnrich ==
    \/ Startup
    \/ KeyArrive
    \/ ReadNone
    \/ \E k \in EnrichKeys : ReadKey(k)
    \/ SortRead
    \/ SortWrite
    \/ SortReset
    \/ SortLoad
    \/ HandleUpdates
    \/ \E list \in EnrichFeeds : FetchReturn("ok", list, 0)
    \/ Sleep(0)
    \/ Workers

SpecEnrich == Init /\ [][NextEnrich]_vars

\* Startup: what config.txt holds and what the command line gives, then the
\* interval and rows editors.
ConfigFiles ==
    {[exists |-> FALSE, url |-> <<>>, interval |-> 0, rows |-> 0]}
    \cup [exists : {TRUE}, url : {<<"f">>}, interval : {5, 0, 61},
           rows : {15, 26}]

CliArgs ==
    [url : {[given |-> FALSE, val |-> <<>>], [given |-> TRUE, val |-> <<"c">>]},
     interval : {[given |-> FALSE, val |-> 0], [given |-> TRUE, val |-> 0],
                 [given |-> TRUE, val |-> 30], [given |-> TRUE, val |-> 61]}]

InitStart ==
    \E file \in ConfigFiles, args \in CliArgs :
        InitMain(load_config(file), ConfigFileAfterLoad(file), args,
                 AirlineFile)

StartKeys == {"i", "n", "6", KeyEnter}

NextStart ==
    \/ Startup
    \/ KeyArrive
    \/ ReadNone
    \/ \E k \in StartKeys : ReadKey(k)
    \/ HandleUpdates
    \/ FetchReturn("ok", <<>>, 0)
    \/ Sleep(0)

SpecStart == InitStart /\ [][NextStart]_vars

\* Ranking: feeds of up to MaxFeed records, near, far or with a coordinate
\* missing, and a row count of 1, 2 or 15 taken from config.txt.
RankRecords ==
    {Aircraft("BAW1", TRUE, TRUE, 1), Aircraft("BAW1", TRUE, TRUE, 2),
     Aircraft("BAW1", FALSE, TRUE, 1),
     Aircraft("BAW2", TRUE, TRUE, 1), Aircraft("BAW2", TRUE, TRUE, 2),
     Aircraft("BAW2", TRUE, FALSE, 1)}

RankFeeds == UNION {[1..n -> RankRecords] : n \in 0..MaxFeed}

RankConfigs ==
    [exists : {TRUE}, url : {DEFAULT_URL}, interval : {DefaultInterval},
     rows : {1, 2, DefaultRows}]

InitRank ==
    \E file \in RankConfigs :
        InitMain(load_config(file), ConfigFileAfterLoad(file), NoArgs,
                 AirlineFile)

NextRank ==
    \/ Startup
    \/ ReadNone
    \/ HandleUpdates
    \/ \E list \in RankFeeds : FetchReturn("ok", list, 0)
    \/ Sleep(0)

SpecRank == InitRank /\ [][NextRank]_vars

\* Feeds with a blank callsign, a callsign sent twice and more records than
\* rows; config.txt gives the row count and an interval of one second, an
\* iteration of the loop takes a second and the workers run between the
\* polls.
TriggerFeeds ==
    {<<Aircraft("BAW1", TRUE, TRUE, 10), Aircraft("  ", TRUE, TRUE, 20),
       Aircraft("BAW2", TRUE, TRUE, 30)>>,
     <<Aircraft("BAW2", TRUE, TRUE, 30), Aircraft("BAW1", TRUE, TRUE, 10),
       Aircraft("  ", TRUE, TRUE, 5)>>,
     <<Aircraft("BAW1", TRUE, TRUE, 10), Aircraft("BAW1 ", TRUE, TRUE, 20)>>}

TriggerConfigs ==
    [exists : {TRUE}, url : {DEFAULT_URL}, interval : {IntervalMin},
     rows : {1, 2, DefaultRows}]

InitTrigger ==
    \E file \in TriggerConfigs :
        InitMain(load_config(file), ConfigFileAfterLoad(file), NoArgs,
                 AirlineFile)

NextTrigger ==
    \/ Startup
    \/ ReadNone
    \/ HandleUpdates
    \/ \E list \in TriggerFeeds : FetchReturn("ok", list, 0)
    \/ Sleep(1)
    \/ Workers

SpecTrigger == InitTrigger /\ [][NextTrigger]_vars

\* The input-mode machine: the three editors entered by i, n and u, typed
\* letters, Backspace, Escape and Enter.
ModeKeys == {"i", "n", "u", KeyEnter, KeyBackspace, KeyEscape}

NextMode ==
    \/ Startup
    \/ KeyArrive
    \/ ReadNone
    \/ \E k \in ModeKeys : ReadKey(k)
    \/ HandleUpdates
    \/ FetchReturn("ok", <<>>, 0)
    \/ Sleep(0)

SpecMode == Init /\ [][NextMode]_vars

\* The command letters typed in command mode and in the editors, with
\* Escape to leave an editor, the sort the s command runs, and Ctrl-C.
CommandKeys == {"q", "h", "s", "i", "n", "u", KeyEscape}

NextCommand ==
    \/ Startup
    \/ KeyArrive
    \/ ReadNone
    \/ \E k \in CommandKeys : ReadKey(k)
    \/ SortRead
    \/ SortWrite
    \/ SortReset
    \/ SortLoad
    \/ HandleUpdates
    \/ FetchReturn("ok", <<>>, 0)
    \/ Sleep(0)
    \/ Interrupt

SpecCommand == Init /\ [][NextCommand]_vars

\* The poll cadence: the interval editor with the digit 2, a clock that
\* advances, fetches that take 0 or 2 seconds.
CadenceKeys == {"i", "2", KeyEnter}

NextCadence ==
    \/ Startup
    \/ KeyArrive
    \/ ReadNone
    \/ \E k \in CadenceKeys : ReadKey(k)
    \/ HandleUpdates
    \/ \E kind \in {"ok", "unavailable"}, dur \in {0, 2} :
          FetchReturn(kind, <<>>, dur)
    \/ \E d \in {0, 1} : Sleep(d)

SpecCadence == Init /\ [][NextCadence]_vars

\* ================================================================ claims
WorkersFor(callsign) ==
    {w \in 1..Len(workers) : workers[w].cs = callsign}

\* C1: for every callsign, at any time, at most one worker that was started
\* and has not yet terminated exists, whatever the interleaving of frame
\* renders and workers; two observations of the same callsign with missing
\* data, in one frame or in successive frames, start at most one worker.
C1_OneWorkerPerCallsign ==
    \A callsign \in Callsigns : Cardinality(WorkersFor(callsign)) <= 1

\* The frame shows the same callsign in two rows, both without a route, and
\* one worker is running for it.
C1_Witness ==
    /\ frame.table.kind = "rows"
    /\ Len(frame.table.rows) = 2
    /\ frame.table.rows[1].callsign = "BAW1"
    /\ frame.table.rows[2].callsign = "BAW1"
    /\ frame.table.rows[2].route = "?"
    /\ Cardinality(WorkersFor("BAW1")) = 1
    /\ "BAW1" \in PENDING_LOOKUPS

\* C2: a callsign is in PENDING_LOOKUPS only while a worker for it is
\* running: when the worker terminates, by whatever outcome (data, status
\* other than 200, exception), the callsign is no longer pending.
C2_PendingOnlyWhileRunning ==
    \A callsign \in PENDING_LOOKUPS : WorkersFor(callsign) # {}

\* A worker has run and terminated without a route for its callsign (no
\* data, a status other than 200 or an exception), and nothing is pending.
C2_Witness ==
    /\ pc \in LoopPcs
    /\ nstarted = 1
    /\ workers = <<>>
    /\ flights.list # <<>>
    /\ "BAW1" \notin DOMAIN ROUTES
    /\ PENDING_LOOKUPS = {}

\* The step in which Enter is read while the field "mode" is edited.
EnterCommit(mode) ==
    /\ pc = "read"
    /\ input_mode = mode
    /\ stdin' = stdin - 1
    /\ char' = KeyEnter
    /\ pc' = "timer"

\* The buffer is the decimal text of an integer from lo to hi.
IntegerIn(buf, lo, hi) ==
    ~IntRaises(buf) /\ IntOf(buf) >= lo /\ IntOf(buf) <= hi

FailsValidation(mode, buf) ==
    CASE mode = "interval" -> ~IntegerIn(buf, 1, 60)
      [] mode = "rows" -> ~IntegerIn(buf, 1, 25)
      [] mode = "url" -> Strip(buf) = <<>>
      [] OTHER -> FALSE

SuccessKinds == {"interval_updated", "rows_updated", "url_updated", "sorted"}

\* C4: every Enter commit whose buffer fails the validation of its field
\* (interval, rows, url; for url an empty or blank buffer) sets an error
\* notification in that step and returns to command mode with the buffer
\* emptied.
C4_FailedCommitNotifies ==
    [][\A mode \in {"interval", "rows", "url"} :
          (EnterCommit(mode) /\ FailsValidation(mode, input_buffer)) =>
             /\ notification_msg' # NoMsg
             /\ notification_msg'.kind \notin SuccessKinds
             /\ notif_created' = clock
             /\ frame'.notif = notification_msg'
             /\ input_mode' = "None"
             /\ input_buffer' = <<>>]_vars

\* The frame shows a notification.
NotificationShown == frame.notif # NoMsg

\* C5: a notification created at time T is in the frame up to T+3 s, and is
\* in no frame the loop leaves behind at the end of an iteration at T+4 s
\* or later, as long as no new notification is created.
C5_NotificationThreeSeconds ==
    (pc \in LoopPcs /\ notif_created > 0) =>
        /\ clock <= notif_created + NotificationTTL => NotificationShown
        /\ (pc = "sleep" /\ clock >= notif_created + NotificationTTL + 1)
              => ~NotificationShown

\* C6: a poll that fails (network or HTTP failure, malformed body) does
\* not end the process, and while the last poll has failed the frame shows
\* the error row that names the source URL.
C6_FailedPollNotFatal ==
    /\ exitcause # "exception"
    /\ (pc \in LoopPcs /\ flights.none) =>
          (frame.table.kind = "error" /\ frame.table.url = current_url)

\* C7: a keystroke that waits in stdin while a poll is in flight is not
\* kept waiting for the fetch: the step that ends the fetch takes no more
\* than the second a loop iteration is rounded to.
C7_KeyboardLiveDuringFetch ==
    [][(pc = "fetching" /\ stdin > 0 /\ pc' # "fetching")
          => clock' - clock <= 1]_vars

LinesFor(code) ==
    {i \in 1..Len(airlines_file.lines) :
        UpperCode(airlines_file.lines[i].code) = code}

\* C8: airlines.txt holds at most one line for an airline code, whatever
\* the number and interleaving of the workers that discover the code.
C8_AirlineWrittenOnce ==
    \A code \in Codes : Cardinality(LinesFor(code)) <= 1

SortPcs == {"sort_read", "sort_write", "sort_reset", "sort_load"}

\* C9: once a worker has set an airline in AIRLINES and appended it to
\* airlines.txt, the entry is in AIRLINES and in the file whenever the
\* loop is not inside the s command.
C9_CommittedAirlineKept ==
    (pc \in LoopPcs \ SortPcs) =>
        \A code \in committed :
            code \in DOMAIN AIRLINES /\ LinesFor(code) # {}

\* C10: when the loop has ended after KeyListener acquired cbreak mode (by
\* q, by an exception raised in the loop or by a keyboard interrupt), the
\* terminal is in the mode it had at startup.
C10_TerminalRestored ==
    pc = "done" => (term = StartupMode /\ exitcause # "none")

\* The loop was ended by an exception and the terminal is restored.
C10_Witness ==
    /\ pc = "done"
    /\ exitcause = "exception"
    /\ old_settings = StartupMode
    /\ term = StartupMode

\* C11: in every state of the session, from the start on (config.txt
\* loaded, then the arguments applied, then any edits), the interval in
\* effect is in 1..60 and the row count in effect is in 1..25.
C11_SettingsInRange ==
    pc # "done" =>
        /\ current_interval >= 1 /\ current_interval <= 60
        /\ current_max_rows >= 1 /\ current_max_rows <= 25

\* C12: a step that gives Live a new frame (get_renderable, generate_table)
\* leaves PENDING_LOOKUPS, ROUTES and the running workers as they were.
C12_FrameCompositionPure ==
    [][(frame' # frame /\ pc' # "done") =>
          /\ PENDING_LOOKUPS' = PENDING_LOOKUPS
          /\ ROUTES' = ROUTES
          /\ workers' = workers
          /\ nstarted' = nstarted]_vars

\* Record a of the feed comes before record b in the ranking: a record with
\* both coordinates before one without, then the smaller distance, then
\* the earlier place in the feed.
HasCoordinates(f) == f.lat /\ f.lon

RankedBefore(list, a, b) ==
    \/ HasCoordinates(list[a]) /\ ~HasCoordinates(list[b])
    \/ /\ HasCoordinates(list[a]) /\ HasCoordinates(list[b])
       /\ list[a].d < list[b].d
    \/ /\ HasCoordinates(list[a]) = HasCoordinates(list[b])
       /\ HasCoordinates(list[a]) => list[a].d = list[b].d
       /\ a < b

RankOf(list, a) ==
    1 + Cardinality({b \in 1..Len(list) : RankedBefore(list, b, a)})

Min(a, b) == IF a < b THEN a ELSE b

\* C13: the rows of a frame are the min(N, M) nearest of the M records of
\* the feed, in ascending distance, ties in feed order, records without a
\* coordinate after all records with both and dropped only by truncation.
C13_NearestRowsInOrder ==
    (pc \in LoopPcs /\ frame.table.kind = "rows") =>
        /\ Len(frame.table.rows) = Min(current_max_rows, Len(flights.list))
        /\ \A a \in 1..Len(flights.list) :
              RankOf(flights.list, a) <= current_max_rows =>
                 LET row == frame.table.rows[RankOf(flights.list, a)]
                 IN /\ row.callsign = DisplayCallsign(flights.list[a])
                    /\ HasCoordinates(flights.list[a])
                          => row.dist = flights.list[a].d
                    /\ ~HasCoordinates(flights.list[a]) => row.dist = Inf

\* Three records, the first without a coordinate, the other two at the
\* same distance, and a row count of 2: the two rows are the second and
\* third record in feed order.
C13_Witness ==
    /\ pc \in LoopPcs
    /\ current_max_rows = 2
    /\ Len(flights.list) = 3
    /\ ~HasCoordinates(flights.list[1])
    /\ flights.list[2] = Aircraft("BAW2", TRUE, TRUE, 2)
    /\ flights.list[3] = Aircraft("BAW1", TRUE, TRUE, 2)
    /\ Len(frame.table.rows) = 2
    /\ frame.table.rows[1].callsign = "BAW2"
    /\ frame.table.rows[2].callsign = "BAW1"

\* The step in which read_char() returns a character and the loop goes on.
KeyRead ==
    /\ pc = "read"
    /\ stdin' = stdin - 1
    /\ pc' \in {"timer", "sort_read"}

EditorOf(k) ==
    CASE k = "i" -> "interval" [] k = "n" -> "rows" [] k = "u" -> "url"
      [] OTHER -> "None"

\* C14: the input mode starts as command mode; there i, n and u open the
\* interval, rows and url editor with an empty buffer; in an editor a
\* printable character is appended, Backspace removes the last character
\* (nothing from an empty buffer), Escape returns to command mode and
\* leaves settings, config.txt and notification as they are, Enter returns
\* to command mode; in command mode the buffer is empty.
C14_InputModeMachine ==
    /\ input_mode = "None"
    /\ [](input_mode = "None" => input_buffer = <<>>)
    /\ [][KeyRead =>
            IF input_mode = "None"
            THEN /\ input_mode' = EditorOf(char')
                 /\ input_buffer' = <<>>
            ELSE /\ char' \in Printable =>
                      /\ input_mode' = input_mode
                      /\ input_buffer' = input_buffer \o <<char'>>
                 /\ char' = KeyBackspace =>
                      /\ input_mode' = input_mode
                      /\ input_buffer' =
                            IF input_buffer = <<>> THEN <<>>
                            ELSE SubSeq(input_buffer, 1,
                                        Len(input_buffer) - 1)
                 /\ char' = KeyEscape =>
                      /\ input_mode' = "None"
                      /\ UNCHANGED <<CONFIG, cfgfile, current_url,
                                     current_interval, current_max_rows,
                                     notification_msg,
                                     notification_start_time>>
                 /\ char' = KeyEnter => input_mode' = "None"]_vars

\* Escape was read in an editor whose buffer held text while a notification
\* was showing: command mode, empty buffer, the notification still there.
C14_Witness ==
    /\ pc = "timer"
    /\ char = KeyEscape
    /\ input_mode = "None"
    /\ input_buffer = <<>>
    /\ notification_msg.kind = "url_updated"
    /\ frame.notif = notification_msg
    /\ frame.mode = "None"

C16_PollCadence ==
    [][/\ (pc = "timer" /\ pc' \in {"fetching", "sleep"}) =>
             /\ (pc' = "fetching") = (clock - last_update >= current_interval)
             /\ now' = clock
       /\ (pc = "fetching" /\ pc' = "sleep") => last_update' = now]_vars

\* The interval was edited to 2 and a fetch is issued 2 seconds after the
\* previous one was.
C16_Witness ==
    /\ pc = "fetching"
    /\ current_interval = 2
    /\ last_update >= Epoch
    /\ now = last_update + 2

\* The callsigns a step starts a worker for.
StartedBy ==
    {workers'[i].cs : i \in (Len(workers) + 1)..Len(workers')}

\* C17: a worker is started for a callsign only when the callsign has no
\* route and no airline match and is not pending; a callsign that has a
\* route or an airline match starts none.
C17_StartOnlyWithoutRouteAndAirline ==
    [][nstarted' > nstarted =>
          \A callsign \in StartedBy :
              /\ callsign \notin DOMAIN ROUTES'
              /\ get_airline(AIRLINES', callsign) = ""
              /\ callsign \notin PENDING_LOOKUPS]_vars

\* Worker w's request fails: from the request straight to the finally
\* clause.
WorkerFails(w) ==
    /\ w \in 1..Len(workers)
    /\ Len(workers') = Len(workers)
    /\ workers[w].pc = "get"
    /\ workers'[w].pc = "finally"

\* Worker w, whose request failed, terminates.
FailedWorkerEnds(w) ==
    /\ w \in 1..Len(workers)
    /\ workers[w].pc = "finally"
    /\ workers[w].failed
    /\ workers' = RemoveAt(workers, w)

\* The callsign is in a row the table shows for these flights, with route
\* or airline missing.
RenderedWithMissingData(callsign, fl, max_rows, airlines, routes) ==
    /\ ~fl.none
    /\ \E a \in 1..Len(fl.list) :
          /\ RankOf(fl.list, a) <= max_rows
          /\ DisplayCallsign(fl.list[a]) = callsign
    /\ \/ callsign \notin DOMAIN routes
       \/ get_airline(airlines, callsign) = ""

\* The callsigns a frame composed from these values starts a worker for.
WouldStart(fl, max_rows, airlines, routes, pending) ==
    LET g == generate_table(fl, DEFAULT_URL, max_rows, airlines, routes,
                            pending)
    IN {g.started[i] : i \in 1..Len(g.started)}

ComposesFrame == pc = "fetching" /\ pc' = "sleep"

\* C19: composing a frame starts a worker for a callsign exactly when a
\* record among the rows kept by the truncation has that callsign, the
\* callsign is not the placeholder, its route or its airline is missing and
\* it was not pending; one worker per such callsign, none for a record cut
\* off by the truncation or for a blank callsign.
C19_StartExactlyWhenRenderedMissing ==
    [][ComposesFrame =>
          /\ \A callsign \in Callsigns \cup {"-", ""} :
                callsign \in StartedBy <=>
                   /\ callsign # "-"
                   /\ callsign \notin PENDING_LOOKUPS
                   /\ RenderedWithMissingData(callsign, flights',
                                              current_max_rows, AIRLINES,
                                              ROUTES)
          /\ StartedBy \subseteq Callsigns
          /\ Len(workers') - Len(workers) = Cardinality(StartedBy)]_vars

\* A feed of three records drawn in two rows, the second row a blank
\* callsign: the only worker started is the one for BAW1.
C19_Witness ==
    /\ pc \in LoopPcs
    /\ Len(flights.list) = 3
    /\ frame.table.kind = "rows"
    /\ Len(frame.table.rows) = 2
    /\ frame.table.rows[1].callsign = "BAW1"
    /\ frame.table.rows[2].callsign = "-"
    /\ nstarted = 1
    /\ Len(workers) = 1
    /\ workers[1].cs = "BAW1"

\* The lines of routes.txt appended for a callsign.
RouteLinesFor(callsign) ==
    {i \in 1..Len(routes_file) : routes_file[i].cs = callsign}

\* C20: for each callsign at most one route line is appended to routes.txt,
\* however many workers run and succeed for it.
C20_RouteWrittenOnce ==
    \A callsign \in Callsigns : Cardinality(RouteLinesFor(callsign)) <= 1

\* Every row on display shows the route and the airline that ROUTES and
\* AIRLINES hold for its callsign.
FrameShowsStore ==
    \A i \in 1..Len(frame.table.rows) :
        LET row == frame.table.rows[i]
        IN /\ row.route = IF row.callsign \in DOMAIN ROUTES
                          THEN ROUTES[row.callsign] ELSE "?"
           /\ row.airline = get_airline(AIRLINES, row.callsign)

\* C21: what a worker has put in ROUTES or AIRLINES is on display after the
\* next refresh without a poll, a key or a notification expiry: when every
\* worker has ended before the loop sleeps (a refresh period), the frame
\* after the sleep shows the stored values.
C21_StoreShownAtNextRefresh ==
    [][(pc = "sleep" /\ pc' = "read" /\ workers = <<>>) =>
          FrameShowsStore']_vars

\* C22: the help panel is in the frame exactly when show_help is set, and
\* the interval and the row count it prints are the ones in effect,
\* current_interval and current_max_rows.
C22_HelpShowsEffectiveSettings ==
    pc \in LoopPcs =>
        /\ frame.help = show_help
        /\ show_help =>
              /\ frame.help_interval = current_interval
              /\ frame.help_rows = current_max_rows

CommandLetters == {"q", "h", "s", "i", "n", "u"}

\* C23: in an editor a command letter (q, h, s, i, n, u) read from the
\* keyboard is appended to the buffer and shown; the loop goes on, the
\* editor stays the same, the help toggle, AIRLINES and airlines.txt are
\* untouched and no sort starts.  The loop is left by the quit key only
\* from command mode.
C23_CommandKeysOnlyInIdle ==
    [][/\ (/\ pc = "read"
           /\ input_mode # "None"
           /\ stdin' = stdin - 1
           /\ char' \in CommandLetters) =>
              /\ pc' = "timer"
              /\ exitcause' = "none"
              /\ input_mode' = input_mode
              /\ input_buffer' = Append(input_buffer, char')
              /\ frame'.mode = input_mode
              /\ frame'.buf = input_buffer'
              /\ show_help' = show_help
              /\ UNCHANGED <<AIRLINES, airlines_file, sort_data,
                             notification_msg>>
       /\ (exitcause # "quit" /\ exitcause' = "quit") =>
              /\ pc = "read"
              /\ stdin > 0
              /\ input_mode = "None"]_vars

\* The url editor after q and s were typed into it: both are in the buffer,
\* the loop runs and the help panel is still on.
C23_Witness ==
    /\ pc = "timer"
    /\ exitcause = "none"
    /\ input_mode = "url"
    /\ input_buffer = <<"q", "s">>
    /\ char = "s"
    /\ show_help
    /\ frame.buf = input_buffer

====
